---------------------------- MODULE Spec2Model ----------------------------
(***************************************************************************)
(* A model of webfleet_server.py: the snapshot cache (DataCache), the      *)
(* scraper session (WebfleetScraper), the supervisor loop                  *)
(* (background_scraper) and the /health handlers (APIHandler).             *)
(*                                                                         *)
(* Specifications:                                                         *)
(*   Spec      the supervisor coroutine driving one scraper and writing    *)
(*             the cache; every DataCache method is one step, which the    *)
(*             lock of DataCache justifies (see SpecLock).                 *)
(*   SpecLock  DataCache alone, statement by statement, with the lock:     *)
(*             one writer thread and the reader threads of the HTTP        *)
(*             server.                                                     *)
(*   SpecCache DataCache under any sequence of the supervisor's calls,     *)
(*             and one HTTP client that calls cache.get() twice.           *)
(*   SpecReconcile  get_positions applied to a capture drawn from bounded  *)
(*             object and telemetry lists.                                 *)
(*   SpecFilter     GET /positions/moving and GET /positions/stopped on a  *)
(*             snapshot drawn from bounded lists of records.               *)
(*   SpecAuth  do_GET on any request, after main() has set API_KEY.        *)
(*   SpecRecover    the supervisor of Spec with a driver that, from some   *)
(*             point on, always succeeds; the supervisor's steps are       *)
(*             weakly fair.                                                *)
(***************************************************************************)
EXTENDS Integers, Sequences, FiniteSets, TLC

(***************************************************************************)
(* Bounds of the model.                                                    *)
(***************************************************************************)
MaxLogin == 3
MaxRefresh == 2
MaxNow == 2

(***************************************************************************)
(* Python values.  A value carries its type, so that None, "", 0, {} and   *)
(* [] stay distinct and truthiness is computed as Python computes it.      *)
(* A str is a sequence of one-character strings; a dict is a function      *)
(* from keys to values; datetime values are clock readings.                *)
(***************************************************************************)
PyNone == [t |-> "None"]

PyStr(s) == [t |-> "str", v |-> s]

PyNum(n) == [t |-> "num", v |-> n]

PyBool(b) == [t |-> "bool", v |-> b]

PyDict(f) == [t |-> "dict", v |-> f]

PyList(s) == [t |-> "list", v |-> s]

EmptyDict == PyDict([k \in {} |-> PyNone])

EmptyStr == PyStr(<<>>)

Truthy(x) ==
    CASE x.t = "None" -> FALSE
      [] x.t = "str"  -> x.v # <<>>
      [] x.t = "num"  -> x.v # 0
      [] x.t = "bool" -> x.v
      [] x.t = "dict" -> DOMAIN x.v # {}
      [] x.t = "list" -> x.v # <<>>
      [] OTHER        -> TRUE

\* dict.get(key, default)
Get(d, key, default) == IF key \in DOMAIN d.v THEN d.v[key] ELSE default

\* a or b
PyOr(a, b) == IF Truthy(a) THEN a ELSE b

IsSpace(c) == c \in {" ", "\t", "\n"}

RECURSIVE LStrip(_)
LStrip(s) == IF s # <<>> /\ IsSpace(Head(s)) THEN LStrip(Tail(s)) ELSE s

RECURSIVE RStrip(_)
RStrip(s) ==
    IF s # <<>> /\ IsSpace(s[Len(s)]) THEN RStrip(SubSeq(s, 1, Len(s) - 1)) ELSE s

\* str.strip()
Strip(s) == RStrip(LStrip(s))

\* x / 100 on an int: the quotient, kept exact as whole and hundredths
Div100(n) == [t |-> "float", whole |-> n \div 100, cents |-> n % 100]

(***************************************************************************)
(* WebfleetScraper.get_positions: the reconciliation of the two            *)
(* intercepted streams.  An exception is a result with raised = TRUE and   *)
(* the str() of the exception in msg.                                      *)
(***************************************************************************)
UNKNOWN == <<"U", "N", "K", "N", "O", "W", "N">>

TypeName(x) ==
    CASE x.t = "None" -> "NoneType"
      [] x.t = "num"  -> "int"
      [] OTHER        -> x.t

\* telem_map.get(id, {}) for telem_map = {t["objectId"]: t for t in telemetry}:
\* a later record with the same objectId replaces an earlier one
RECURSIVE telem_map_get(_, _)
telem_map_get(telemetry, id) ==
    IF telemetry = <<>> THEN EmptyDict
    ELSE LET t == telemetry[Len(telemetry)]
         IN  IF t.v["objectId"] = id THEN t
             ELSE telem_map_get(SubSeq(telemetry, 1, Len(telemetry) - 1), id)

\* pos = telem.get("position", obj.get("position", {})) or {}
resolve_pos(obj, telem) ==
    PyOr(Get(telem, "position", Get(obj, "position", EmptyDict)), EmptyDict)

\* the dict the address is read from (line 255 or line 256)
address_holder(obj, pos) ==
    IF pos.t = "dict" THEN Get(pos, "location", EmptyDict)
    ELSE Get(obj, "locationDescription", EmptyDict)

\* the str() of the exception building the record of obj raises, <<>> if none
record_error(obj, telem) ==
    LET pos == resolve_pos(obj, telem)
        plate == Get(obj, "licensePlate", EmptyStr)
        holder == address_holder(obj, pos)
        odo == Get(obj, "odometer", PyNum(0))
    IN  IF plate.t # "str"
        THEN <<"'" \o TypeName(plate) \o "' object has no attribute 'strip'">>
        ELSE IF holder.t # "dict"
        THEN <<"'" \o TypeName(holder) \o "' object has no attribute 'get'">>
        ELSE IF odo.t # "num"
        THEN <<"unsupported operand type(s) for /: '" \o TypeName(odo) \o "' and 'int'">>
        ELSE <<>>

\* the dict appended at lines 247-262
position_record(obj, telem) ==
    LET pos == resolve_pos(obj, telem)
        isdict == pos.t = "dict"
    IN  [object_id     |-> Get(obj, "objectId", PyNone),
         number        |-> Get(obj, "number", EmptyStr),
         name          |-> Get(obj, "name", EmptyStr),
         license_plate |-> PyStr(Strip(Get(obj, "licensePlate", EmptyStr).v)),
         type          |-> Get(obj, "type", EmptyStr),
         latitude      |-> IF isdict THEN Get(pos, "latitude", PyNone) ELSE PyNone,
         longitude     |-> IF isdict THEN Get(pos, "longitude", PyNone) ELSE PyNone,
         address       |-> Get(address_holder(obj, pos), "address", EmptyStr),
         speed         |-> Get(telem, "speed", PyNum(0)),
         ignition      |-> Get(telem, "ignition", PyStr(UNKNOWN)),
         stand_still   |-> Get(telem, "standStill", PyBool(FALSE)),
         last_gps_time |-> PyOr(IF isdict THEN Get(pos, "time", PyNone) ELSE PyNone,
                                Get(obj, "lastGpsTime", EmptyStr)),
         odometer_km   |-> Div100(Get(obj, "odometer", PyNum(0)).v)]

Returned(value) == [raised |-> FALSE, msg |-> "", value |-> value]

Raised(msg) == [raised |-> TRUE, msg |-> msg, value |-> <<>>]

\* the loop of lines 243-262 from object i on, positions built so far in acc
RECURSIVE positions_loop(_, _, _, _)
positions_loop(objects, telemetry, i, acc) ==
    IF i > Len(objects) THEN Returned(acc)
    ELSE LET obj == objects[i]
         IN  IF "objectId" \notin DOMAIN obj.v THEN Raised("'objectId'")
             ELSE LET telem == telem_map_get(telemetry, obj.v["objectId"])
                      err == record_error(obj, telem)
                  IN  IF err # <<>> THEN Raised(err[1])
                      ELSE positions_loop(objects, telemetry, i + 1,
                                          Append(acc, position_record(obj, telem)))

get_positions(data) ==
    LET objects == PyOr(data.objects, PyList(<<>>)).v
        telemetry == PyOr(data.telemetry, PyList(<<>>)).v
    IN  IF objects = <<>> THEN Returned(<<>>)
        ELSE IF \E j \in 1..Len(telemetry) : "objectId" \notin DOMAIN telemetry[j].v
        THEN Raised("'objectId'")
        ELSE positions_loop(objects, telemetry, 1, <<>>)

(***************************************************************************)
(* DataCache.  last_update is <<>> for None and <<t>> for the datetime t;  *)
(* error is <<>> for None and <<s>> for the string s (which may be "").    *)
(***************************************************************************)
None == <<>>

Some(x) == <<x>>

DataCache_init ==
    [positions |-> <<>>, last_update |-> None, error |-> None,
     login_count |-> 0, refresh_count |-> 0]

\* a bug that keeps the error of an earlier failure
update_keeps_error(c, positions, t) ==
    [c EXCEPT !.positions = positions,
              !.last_update = Some(t),
              !.refresh_count = @ + 1]

\* DataCache.update at the clock reading t
update(c, positions, t) ==
    [c EXCEPT !.positions = positions,
              !.last_update = Some(t),
              !.error = None,
              !.refresh_count = @ + 1]

\* a bug that drops the snapshot when an error is recorded
set_error_drops_snapshot(c, msg) ==
    [c EXCEPT !.error = Some(msg), !.positions = <<>>, !.last_update = None]

\* DataCache.set_error; msg is str(error)
set_error(c, msg) == [c EXCEPT !.error = Some(msg)]

\* a bug that does not count the attempt
login_not_counted(c) == c

\* cache.login_count += 1 in WebfleetScraper.login
login_increment(c) == [c EXCEPT !.login_count = @ + 1]

\* datetime.isoformat(): a non-empty string that names the datetime
isoformat(t) == <<"iso", t>>

\* DataCache.get at the clock reading t (a tenth of a second per tick, so
\* round(age, 1) keeps the age; an age of 0 is falsy and reported as None)
get(c, t) ==
    LET age == IF c.last_update # None THEN Some(t - c.last_update[1]) ELSE None
    IN  [positions |-> c.positions,
         count |-> Len(c.positions),
         last_update |-> IF c.last_update # None
                         THEN Some(isoformat(c.last_update[1])) ELSE None,
         cache_age_seconds |-> IF age # None /\ age[1] # 0 THEN age ELSE None,
         error |-> c.error]

\* DataCache.stats
stats(c) ==
    [login_count |-> c.login_count,
     refresh_count |-> c.refresh_count,
     vehicle_count |-> Len(c.positions),
     last_update |-> IF c.last_update # None
                     THEN Some(isoformat(c.last_update[1])) ELSE None,
     error |-> c.error]

\* the truth value of data["error"], an Optional[str]: None and "" are falsy
TruthyOptStr(x) == x # None /\ x[1] # ""

\* the truth value of data["last_update"], None or an isoformat() string
TruthyOptIso(x) == x # None /\ x[1] # <<>>

(***************************************************************************)
(* APIHandler: GET /health and HEAD /health.                               *)
(***************************************************************************)
\* send_json(data, status=200)
send_json(data, status) == [code |-> status, body |-> data]

do_GET_health(c) ==
    LET data == stats(c)
        status == IF TruthyOptIso(data.last_update) /\ ~TruthyOptStr(data.error)
                  THEN "healthy" ELSE "unhealthy"
    IN  send_json([status |-> status, data |-> data], 200)

do_HEAD_health(c) ==
    LET data == stats(c)
        status == IF TruthyOptIso(data.last_update) /\ ~TruthyOptStr(data.error)
                  THEN 200 ELSE 503
    IN  [code |-> status, body |-> None]


(***************************************************************************)
(* State.                                                                  *)
(***************************************************************************)
VARIABLES
    cache,             \* the DataCache singleton
    now,               \* datetime.now(), in ticks
    pc,                \* background_scraper: the line it is at ("L274", ...)
    via_continue,      \* the finally clause runs because of the continue of line 280
    scraper,           \* WebfleetScraper: playwright, browser, page (what each refers to)
    intercepted_data,  \* WebfleetScraper.intercepted_data
    leaked,            \* browsers and playwrights still open that nothing refers to
    file,              \* DATA_DIR / "positions_latest.json"
    lastOp,            \* history: the last DataCache operation of the supervisor
    prev,              \* history: the cache before that operation
    lastArg,           \* history: the positions passed to the last update
    closeInvoked,      \* history: close() was called since the last start()
    closeCalls,        \* history: the calls of close() since the last start()
    started,           \* history: start() was called
    stale,             \* history: the streams of intercepted_data that were
                       \* intercepted before the last start()
    lock,              \* SpecLock: DataCache.lock, "free" or the thread holding it
    wpc,               \* SpecLock: the writer thread, the line it is at
    warg,              \* SpecLock: the argument of the writer's call
    wtmp,              \* SpecLock: the value loaded by cache.login_count += 1
    rpc,               \* SpecLock: each reader thread, the line it is at
    rres,              \* SpecLock: the dict each reader is building
    rcand,             \* SpecLock, history: the cache states that existed during the call
    g1,                \* SpecCache: what the client's first get() returned
    g2,                \* SpecCache: what the client's second get() returned
    between,           \* SpecCache, history: the cache operations called after g1
    captured,          \* SpecReconcile: the intercepted_data get_positions is given
    reconciled,        \* SpecReconcile: what get_positions returned or raised
    filtered,          \* SpecFilter: the responses of the two filter routes
    API_KEY,           \* SpecAuth: the global API_KEY
    request,           \* SpecAuth: the request do_GET handled last
    response,          \* SpecAuth: what do_GET answered
    reliable           \* SpecRecover: refresh_count when the driver became reliable

supVars == <<pc, via_continue, scraper, intercepted_data, leaked, file,
             lastOp, prev, lastArg, closeInvoked, closeCalls, started, stale>>

lockVars == <<lock, wpc, warg, wtmp, rpc, rres, rcand>>

clientVars == <<g1, g2, between>>

reconcileVars == <<captured, reconciled>>

httpVars == <<filtered, API_KEY, request, response>>

otherVars == <<reconcileVars, httpVars, reliable>>

vars == <<cache, now, supVars, lockVars, otherVars, clientVars, otherVars>>

(***************************************************************************)
(* What the remote site and the driver may answer.                         *)
(***************************************************************************)
ObjA ==
    PyDict([objectId |-> PyStr(<<"A", "1">>),
            licensePlate |-> PyStr(<<" ", "A", "B", "-", "1", " ">>),
            odometer |-> PyNum(15050)])

\* an object record without objectId: obj["objectId"] raises KeyError
ObjNoId == PyDict([name |-> PyStr(<<"x">>)])

TelA ==
    PyDict([objectId |-> PyStr(<<"A", "1">>), speed |-> PyNum(42),
            standStill |-> PyBool(FALSE)])

ObjectPayloads == {PyList(<<>>), PyList(<<ObjA>>), PyList(<<ObjNoId>>)}

TelemetryPayloads == {PyList(<<TelA>>)}

\* str(e) of the exceptions the driver, the file system and close() raise
ExcMsgs == {"", "Timeout 30000ms exceeded"}

\* the positions the supervisor passes to cache.update: what get_positions
\* returns for the payloads above when it returns a non-empty list
WriterPositions ==
    {get_positions([objects |-> o, telemetry |-> t]).value :
        o \in ObjectPayloads, t \in TelemetryPayloads \cup {PyNone}} \ {<<>>}

\* the threads of the HTTP server that read the cache
Readers == {"reader1", "reader2"}

\* the dict a reader builds, before any field is read
BlankResult ==
    [kind |-> "none", age |-> None, positions |-> <<>>, count |-> 0,
     last_update |-> None, cache_age_seconds |-> None, error |-> None,
     login_count |-> 0, refresh_count |-> 0, vehicle_count |-> 0]

NoArg == [positions |-> <<>>, msg |-> ""]

(***************************************************************************)
(* Init: the module-level cache = DataCache() and the scraper built at     *)
(* line 269.                                                               *)
(***************************************************************************)
WebfleetScraper_init == [playwright |-> "None", browser |-> "None", page |-> "None"]

\* everything but the cache and the state of the specifications of pure functions
InitRest ==
    /\ now = 1
    /\ pc = "L274"
    /\ via_continue = FALSE
    /\ scraper = WebfleetScraper_init
    /\ intercepted_data = [objects |-> PyNone, telemetry |-> PyNone]
    /\ leaked = [browser |-> 0, playwright |-> 0]
    /\ file = [state |-> "absent", content |-> None]
    /\ lastOp = "init"
    /\ prev = DataCache_init
    /\ lastArg = <<>>
    /\ closeInvoked = FALSE
    /\ closeCalls = 0
    /\ started = FALSE
    /\ stale = [objects |-> FALSE, telemetry |-> FALSE]
    /\ lock = "free"
    /\ wpc = "idle"
    /\ warg = NoArg
    /\ wtmp = 0
    /\ rpc = [r \in Readers |-> "idle"]
    /\ rres = [r \in Readers |-> BlankResult]
    /\ rcand = [r \in Readers |-> {}]
    /\ g1 = None
    /\ g2 = None
    /\ between = {}
    /\ reliable = None

\* nothing was given to get_positions
IdleReconcile ==
    /\ captured = [objects |-> PyNone, telemetry |-> PyNone]
    /\ reconciled = None

\* API_KEY = os.environ.get("API_KEY", "") with the variable unset (line 40),
\* and no request handled
IdleHttp ==
    /\ filtered = [moving |-> None, stopped |-> None]
    /\ API_KEY = <<>>
    /\ request = None
    /\ response = None

Init ==
    /\ cache = DataCache_init
    /\ InitRest
    /\ IdleReconcile
    /\ IdleHttp

\* the supervisor calls cache.set_error(msg)
CallSetError(msg) ==
    /\ cache' = set_error(cache, msg)
    /\ prev' = cache
    /\ lastOp' = "set_error"

NoCacheCall == UNCHANGED <<cache, prev, lastOp>>

\* time passes
Tick ==
    /\ now < MaxNow
    /\ now' = now + 1
    /\ UNCHANGED <<lockVars, clientVars, otherVars>>
    /\ UNCHANGED <<cache, pc, via_continue, scraper, intercepted_data, leaked, file,
                   lastOp, prev, lastArg, closeInvoked, closeCalls, started, stale>>

(***************************************************************************)
(* WebfleetScraper.start (line 274).  The handle a field referred to is    *)
(* dropped when the field is assigned; if it was open it leaks.            *)
(***************************************************************************)
StartOutcomes == {"ok", "playwright_raises", "launch_raises", "context_raises"}

Dropped(status) == IF status = "open" THEN 1 ELSE 0

\* the scraper after start() ran up to the point the outcome names
start(s, outcome) ==
    CASE outcome = "playwright_raises" -> s
      [] outcome = "launch_raises"     -> [s EXCEPT !.playwright = "open"]
      [] outcome = "context_raises"    -> [s EXCEPT !.playwright = "open", !.browser = "open"]
      [] outcome = "ok"                ->
            [playwright |-> "open", browser |-> "open", page |-> "live"]

Start ==
    /\ pc = "L274"
    /\ \E outcome \in StartOutcomes, msg \in ExcMsgs :
          /\ scraper' = start(scraper, outcome)
          /\ leaked' =
               [browser |-> leaked.browser +
                    (IF outcome \in {"ok", "context_raises"}
                     THEN Dropped(scraper.browser) ELSE 0),
                playwright |-> leaked.playwright +
                    (IF outcome # "playwright_raises"
                     THEN Dropped(scraper.playwright) ELSE 0)]
          /\ IF outcome = "ok"
             THEN /\ pc' = "L276"
                  /\ NoCacheCall
             ELSE \* except Exception as e (line 311): cache.set_error(e)
                  /\ pc' = "L316"
                  /\ CallSetError(msg)
    /\ started' = TRUE
    /\ closeInvoked' = FALSE
    /\ closeCalls' = 0
    /\ via_continue' = FALSE
    /\ stale' = [objects |-> intercepted_data.objects.t # "None",
                 telemetry |-> intercepted_data.telemetry.t # "None"]
    /\ UNCHANGED <<lockVars, clientVars, otherVars>>
    /\ UNCHANGED <<now, intercepted_data, file, lastArg>>

(***************************************************************************)
(* WebfleetScraper._intercept_response: a response of the page arrives     *)
(* while the supervisor awaits (navigation, reload or the polling sleep).  *)
(***************************************************************************)
Awaiting == pc \in {"L276w", "L296w", "L299", "L301w", "L303w"}

InterceptObjects ==
    /\ Awaiting
    /\ scraper.page = "live"
    /\ \E payload \in ObjectPayloads :
          intercepted_data' = [intercepted_data EXCEPT !.objects = payload]
    /\ stale' = [stale EXCEPT !.objects = FALSE]
    /\ UNCHANGED <<lockVars, clientVars, otherVars>>
    /\ UNCHANGED <<cache, now, pc, via_continue, scraper, leaked, file,
                   lastOp, prev, lastArg, closeInvoked, closeCalls, started>>

InterceptTelemetry ==
    /\ Awaiting
    /\ scraper.page = "live"
    /\ \E payload \in TelemetryPayloads :
          intercepted_data' = [intercepted_data EXCEPT !.telemetry = payload]
    /\ stale' = [stale EXCEPT !.telemetry = FALSE]
    /\ UNCHANGED <<lockVars, clientVars, otherVars>>
    /\ UNCHANGED <<cache, now, pc, via_continue, scraper, leaked, file,
                   lastOp, prev, lastArg, closeInvoked, closeCalls, started>>

(***************************************************************************)
(* WebfleetScraper.login, called at lines 276, 296 and 303.  LoginCall is  *)
(* lines 147-148; LoginReturn is the try block of lines 150-220.           *)
(***************************************************************************)
LoginSites == {"L276", "L296", "L303"}

Waiting(site) == site \o "w"

\* a bug that polls again at once after the login of line 296
after_login_no_sleep(site, ok) ==
    CASE site = "L276" -> IF ok THEN "L285" ELSE "L278"
      [] site = "L296" -> IF ok THEN "L285" ELSE "L316"
      [] site = "L303" -> IF ok THEN "L285" ELSE "L316"

\* where background_scraper goes on when login() returns ok (TRUE or FALSE)
after_login(site, ok) ==
    CASE site = "L276" -> IF ok THEN "L285" ELSE "L278"
      [] site = "L296" -> IF ok THEN "L299" ELSE "L316"
      [] site = "L303" -> IF ok THEN "L285" ELSE "L316"

LoginCall ==
    /\ pc \in LoginSites
    /\ cache.login_count < MaxLogin
    /\ cache' = login_increment(cache)
    /\ prev' = cache
    /\ lastOp' = "login"
    /\ pc' = Waiting(pc)
    /\ UNCHANGED <<lockVars, clientVars, otherVars>>
    /\ UNCHANGED <<now, via_continue, scraper, intercepted_data, leaked, file,
                   lastArg, closeInvoked, closeCalls, started, stale>>

LoginReturn ==
    /\ \E site \in LoginSites :
          /\ pc = Waiting(site)
          /\ \/ /\ pc' = after_login(site, TRUE)
                /\ NoCacheCall
             \/ \E msg \in ExcMsgs :
                   /\ pc' = after_login(site, FALSE)
                   /\ CallSetError("Login failed: " \o msg)
    /\ UNCHANGED <<lockVars, clientVars, otherVars>>
    /\ UNCHANGED <<now, via_continue, scraper, intercepted_data, leaked, file,
                   lastArg, closeInvoked, closeCalls, started, stale>>


(***************************************************************************)
(* The polling loop, lines 283-309.                                        *)
(***************************************************************************)
\* a bug that drops the test of line 287
has_positions_always(positions) == TRUE

\* if positions: (line 287)
has_positions(positions) == positions # <<>>

\* lines 285-297: reconcile, then update the cache or go and log in again;
\* an exception of get_positions is caught at line 306
Poll ==
    /\ pc = "L285"
    /\ LET r == get_positions(intercepted_data)
       IN  IF r.raised
           THEN /\ CallSetError(r.msg)
                /\ pc' = "L316"
                /\ UNCHANGED lastArg
           ELSE IF has_positions(r.value)
           THEN /\ cache.refresh_count < MaxRefresh
                /\ cache' = update(cache, r.value, now)
                /\ prev' = cache
                /\ lastOp' = "update"
                /\ lastArg' = r.value
                /\ pc' = "L292"
           ELSE /\ NoCacheCall
                /\ pc' = "L296"
                /\ UNCHANGED lastArg
    /\ UNCHANGED <<lockVars, clientVars, otherVars>>
    /\ UNCHANGED <<now, via_continue, scraper, intercepted_data, leaked, file,
                   closeInvoked, closeCalls, started, stale>>

\* lines 292-293: open(..., "w") empties the file, json.dump(cache.get(), f)
\* fills it; an exception of either is caught at line 306
FileWrite ==
    /\ pc = "L292"
    /\ \/ /\ file' = [state |-> "written", content |-> Some(get(cache, now))]
          /\ NoCacheCall
          /\ pc' = "L299"
       \/ \E msg \in ExcMsgs :
             /\ file' \in {file, [state |-> "partial", content |-> None]}
             /\ CallSetError(msg)
             /\ pc' = "L316"
    /\ UNCHANGED <<lockVars, clientVars, otherVars>>
    /\ UNCHANGED <<now, via_continue, scraper, intercepted_data, leaked,
                   lastArg, closeInvoked, closeCalls, started, stale>>

\* asyncio.sleep at lines 279 (then continue, which runs the finally clause),
\* 299 and 319
Sleep ==
    /\ pc \in {"L279", "L299", "L319"}
    /\ pc' = CASE pc = "L279" -> "L316"
               [] pc = "L299" -> "L301"
               [] pc = "L319" -> "L274"
    /\ via_continue' = (pc = "L279")
    /\ UNCHANGED <<lockVars, clientVars, otherVars>>
    /\ UNCHANGED <<cache, now, scraper, intercepted_data, leaked, file,
                   lastOp, prev, lastArg, closeInvoked, closeCalls, started, stale>>

\* WebfleetScraper.refresh: line 224, then the reload of line 226 is awaited
RefreshCall ==
    /\ pc = "L301"
    /\ intercepted_data' = [objects |-> PyNone, telemetry |-> PyNone]
    /\ stale' = [objects |-> FALSE, telemetry |-> FALSE]
    /\ pc' = "L301w"
    /\ UNCHANGED <<lockVars, clientVars, otherVars>>
    /\ UNCHANGED <<cache, now, via_continue, scraper, leaked, file,
                   lastOp, prev, lastArg, closeInvoked, closeCalls, started>>

\* refresh() returns True, or False when the reload raised (lines 229-231)
RefreshReturn ==
    /\ pc = "L301w"
    /\ \E ok \in BOOLEAN : pc' = IF ok THEN "L285" ELSE "L303"
    /\ UNCHANGED <<lockVars, clientVars, otherVars>>
    /\ UNCHANGED <<cache, now, via_continue, scraper, intercepted_data, leaked, file,
                   lastOp, prev, lastArg, closeInvoked, closeCalls, started, stale>>

(***************************************************************************)
(* WebfleetScraper.close, called at line 278 and in the finally clause     *)
(* (line 316).                                                             *)
(***************************************************************************)
Closed(status) == IF status = "None" THEN "None" ELSE "closed"

\* how a call of close() may end: browser.close() is called only if
\* self.browser is set, playwright.stop() only if self.playwright is set
CloseOutcomes(s) ==
    {"ok"} \cup (IF s.browser # "None" THEN {"browser_raises"} ELSE {})
           \cup (IF s.playwright # "None" THEN {"stop_raises"} ELSE {})

\* a bug that closes the browser and never stops playwright
close_browser_only(s, outcome) ==
    IF outcome = "browser_raises" THEN s
    ELSE [s EXCEPT !.browser = Closed(@), !.page = Closed(@)]

\* the handles after close(); a call that raises leaves its handle as it was
close(s, outcome) ==
    CASE outcome = "browser_raises" -> s
      [] outcome = "stop_raises" ->
            [s EXCEPT !.browser = Closed(@), !.page = Closed(@)]
      [] outcome = "ok" ->
            [playwright |-> Closed(s.playwright), browser |-> Closed(s.browser),
             page |-> Closed(s.page)]

\* line 278; an exception of close() is caught at line 311
CloseAfterLoginFailure ==
    /\ pc = "L278"
    /\ \E outcome \in CloseOutcomes(scraper) :
          /\ scraper' = close(scraper, outcome)
          /\ IF outcome = "ok"
             THEN /\ pc' = "L279"
                  /\ NoCacheCall
             ELSE \E msg \in ExcMsgs :
                     /\ pc' = "L316"
                     /\ CallSetError(msg)
    /\ closeInvoked' = TRUE
    /\ closeCalls' = closeCalls + 1
    /\ UNCHANGED <<lockVars, clientVars, otherVars>>
    /\ UNCHANGED <<now, via_continue, intercepted_data, leaked, file, lastArg, started, stale>>

\* line 316; nothing catches an exception of close() here: it leaves the
\* while loop and background_scraper
Finally ==
    /\ pc = "L316"
    /\ \E outcome \in CloseOutcomes(scraper) :
          /\ scraper' = close(scraper, outcome)
          /\ pc' = IF outcome # "ok" THEN "raised"
                   ELSE IF via_continue THEN "L274" ELSE "L319"
    /\ closeInvoked' = TRUE
    /\ closeCalls' = closeCalls + 1
    /\ via_continue' = FALSE
    /\ UNCHANGED <<lockVars, clientVars, otherVars>>
    /\ UNCHANGED <<cache, now, intercepted_data, leaked, file,
                   lastOp, prev, lastArg, started, stale>>

Next ==
    \/ Tick
    \/ Start
    \/ InterceptObjects
    \/ InterceptTelemetry
    \/ LoginCall
    \/ LoginReturn
    \/ Poll
    \/ FileWrite
    \/ Sleep
    \/ RefreshCall
    \/ RefreshReturn
    \/ CloseAfterLoginFailure
    \/ Finally

Spec == Init /\ [][Next]_vars


(***************************************************************************)
(* Properties.                                                             *)
(***************************************************************************)
Healthy == cache.last_update # None /\ cache.error = None

OpenBrowsers == leaked.browser + (IF scraper.browser = "open" THEN 1 ELSE 0)

OpenPlaywrights == leaked.playwright + (IF scraper.playwright = "open" THEN 1 ELSE 0)

\* C1: in every reachable cache state, GET /health reports "healthy", and
\* HEAD /health answers 200, exactly when last_update is not None and error is
\* None.  The code tests the truth value of error, so the error "" counts as
\* no error: violated.
C1_HealthyIffUpdatedAndNoError ==
    /\ (do_GET_health(cache).body.status = "healthy") <=> Healthy
    /\ (do_HEAD_health(cache).code = 200) <=> Healthy

\* C2: GET /health and HEAD /health both answer 200 when the cache is healthy
\* and 503 otherwise.  GET /health calls send_json with the default status and
\* always answers 200: violated.
C2_HealthStatusCode ==
    /\ do_GET_health(cache).code = (IF Healthy THEN 200 ELSE 503)
    /\ do_HEAD_health(cache).code = (IF Healthy THEN 200 ELSE 503)

\* C4: when the supervisor is about to log in again (after an empty capture,
\* line 296, or a failed refresh, line 303) or to back off (lines 279, 319),
\* the failure that brought it there is recorded: cache.error is not None
\* (it then stays so until the next update, which alone clears it).
\* Neither the empty capture nor the failed refresh calls set_error: violated.
C4_FailureRecordedBeforeRetry ==
    pc \in {"L296", "L303", "L279", "L319"} => cache.error # None

\* C5: background_scraper never terminates, whatever the driver does.  An
\* exception of close() in the finally clause is caught by nothing: violated.
C5_SupervisorNeverTerminates == pc # "raised"

\* C6: cache.update is only ever called with non-empty positions, and once
\* last_update is set the cache holds the non-empty positions of the most
\* recent update, whatever empty captures and errors came later.
C6_SnapshotNeverEmptied ==
    /\ lastOp = "update" => lastArg # <<>>
    /\ cache.last_update # None =>
          /\ cache.positions # <<>>
          /\ cache.positions = lastArg

\* C6 witness: a good snapshot, then a failure, then an empty capture (the
\* supervisor is at line 296), and the snapshot is still there.
C6_Witness ==
    /\ pc = "L296"
    /\ cache.last_update # None
    /\ cache.error # None
    /\ cache.positions # <<>>

\* C7: update(positions) leaves the cache with exactly its argument as
\* positions, last_update set, error None, refresh_count one more than before
\* and login_count as before.
C7_UpdateEffect ==
    lastOp = "update" =>
        /\ cache.positions = lastArg
        /\ cache.last_update # None
        /\ cache.error = None
        /\ cache.refresh_count = prev.refresh_count + 1
        /\ cache.login_count = prev.login_count

\* C7 witness: an update that replaced another snapshot and cleared an error.
C7_Witness ==
    /\ lastOp = "update"
    /\ prev.error # None
    /\ prev.positions # <<>>
    /\ prev.positions # cache.positions

\* C8: set_error changes the error field only: positions, last_update,
\* refresh_count and login_count are what they were before the call.
C8_SetErrorFrame ==
    lastOp = "set_error" =>
        /\ cache.positions = prev.positions
        /\ cache.last_update = prev.last_update
        /\ cache.refresh_count = prev.refresh_count
        /\ cache.login_count = prev.login_count
        /\ cache.error # None

\* C8 witness: set_error on a cache that held a good snapshot and no error.
C8_Witness ==
    /\ lastOp = "set_error"
    /\ prev.last_update # None
    /\ prev.positions # <<>>
    /\ prev.error = None

\* C10: when the supervisor is about to call start() again, close() was
\* called since the previous start() and neither the browser nor playwright
\* of that session is open; at most one browser and one playwright are open
\* at any time.
C10_DriverReleasedBeforeRestart ==
    /\ (pc = "L274" /\ started) =>
          /\ closeInvoked
          /\ scraper.browser # "open"
          /\ scraper.playwright # "open"
    /\ OpenBrowsers <= 1
    /\ OpenPlaywrights <= 1

\* C10 witness: the supervisor is about to start a new session after one
\* that had logged in and polled.
C10_Witness ==
    /\ pc = "L274"
    /\ started
    /\ scraper.browser = "closed"
    /\ cache.refresh_count > 0


(***************************************************************************)
(* SpecLock: DataCache statement by statement.  The writer is the          *)
(* supervisor's thread, seen through its calls of update and set_error     *)
(* and its login_count += 1; the readers are request threads calling       *)
(* get() and stats().  wpc and rpc name the line about to be executed.     *)
(***************************************************************************)
\* a bug that lets a thread enter while another holds the lock
lock_never_blocks(holder) == TRUE

\* threading.Lock: "with self.lock" enters only when the lock is free
CanAcquire(holder) == holder = "free"

\* update has written some of its fields and not yet all of them
MidUpdate(line) == line \in {"L66", "L67", "L68"}

\* the lines of get() and stats() that read the cache under the lock
ReadingLines == {"L78", "L79", "L82", "L83", "L84", "L86",
                 "L92", "L93", "L94", "L95", "L96"}

\* history: every cache state that existed, outside an update in progress,
\* while a reader was between taking the lock and its last read
Observe ==
    rcand' = [r \in Readers |->
                 IF rpc'[r] \in ReadingLines
                 THEN rcand[r] \cup (IF MidUpdate(wpc') THEN {} ELSE {cache'})
                 ELSE IF rpc'[r] \in {"L87", "L97"} THEN rcand[r] ELSE {}]

W_Call ==
    /\ wpc = "idle"
    /\ \/ /\ cache.refresh_count < MaxRefresh
          /\ \E p \in WriterPositions : warg' = [positions |-> p, msg |-> ""]
          /\ wpc' = "L64"
       \/ /\ \E msg \in ExcMsgs : warg' = [positions |-> <<>>, msg |-> msg]
          /\ wpc' = "L71"
    /\ UNCHANGED <<cache, now, supVars, clientVars, otherVars, lock, wtmp, rpc, rres>>
    /\ Observe

W_Acquire ==
    /\ wpc \in {"L64", "L71"}
    /\ CanAcquire(lock)
    /\ lock' = "writer"
    /\ wpc' = IF wpc = "L64" THEN "L65" ELSE "L72"
    /\ UNCHANGED <<cache, now, supVars, clientVars, otherVars, warg, wtmp, rpc, rres>>
    /\ Observe

\* one assignment of update (lines 65-68) or of set_error (line 72)
W_Write ==
    /\ wpc \in {"L65", "L66", "L67", "L68", "L72"}
    /\ cache' = CASE wpc = "L65" -> [cache EXCEPT !.positions = warg.positions]
                  [] wpc = "L66" -> [cache EXCEPT !.last_update = Some(now)]
                  [] wpc = "L67" -> [cache EXCEPT !.error = None]
                  [] wpc = "L68" -> [cache EXCEPT !.refresh_count = @ + 1]
                  [] wpc = "L72" -> [cache EXCEPT !.error = Some(warg.msg)]
    /\ wpc' = CASE wpc = "L65" -> "L66"
                [] wpc = "L66" -> "L67"
                [] wpc = "L67" -> "L68"
                [] wpc = "L68" -> "exit"
                [] wpc = "L72" -> "exit"
    /\ UNCHANGED <<now, supVars, clientVars, otherVars, lock, warg, wtmp, rpc, rres>>
    /\ Observe

\* the end of the with block
W_Release ==
    /\ wpc = "exit"
    /\ lock' = "free"
    /\ wpc' = "idle"
    /\ warg' = NoArg
    /\ UNCHANGED <<cache, now, supVars, clientVars, otherVars, wtmp, rpc, rres>>
    /\ Observe

\* cache.login_count += 1 (line 148), without the lock: the load
W_LoginLoad ==
    /\ wpc = "idle"
    /\ cache.login_count < MaxLogin
    /\ wtmp' = cache.login_count
    /\ wpc' = "L148"
    /\ UNCHANGED <<cache, now, supVars, clientVars, otherVars, lock, warg, rpc, rres>>
    /\ Observe

\* cache.login_count += 1 (line 148): the store
W_LoginStore ==
    /\ wpc = "L148"
    /\ cache' = [cache EXCEPT !.login_count = wtmp + 1]
    /\ wpc' = "idle"
    /\ wtmp' = 0
    /\ UNCHANGED <<now, supVars, clientVars, otherVars, lock, warg, rpc, rres>>
    /\ Observe

\* a request thread calls cache.get() or cache.stats()
R_Call(r) ==
    /\ rpc[r] = "idle"
    /\ \E kind \in {"get", "stats"} :
          /\ rres' = [rres EXCEPT ![r] = [BlankResult EXCEPT !.kind = kind]]
          /\ rpc' = [rpc EXCEPT ![r] = IF kind = "get" THEN "L76" ELSE "L90"]
    /\ UNCHANGED <<cache, now, supVars, clientVars, otherVars, lock, wpc, warg, wtmp>>
    /\ Observe

R_Acquire(r) ==
    /\ rpc[r] \in {"L76", "L90"}
    /\ CanAcquire(lock)
    /\ lock' = r
    /\ rpc' = [rpc EXCEPT ![r] = IF rpc[r] = "L76" THEN "L78" ELSE "L92"]
    /\ UNCHANGED <<cache, now, supVars, clientVars, otherVars, wpc, warg, wtmp, rres>>
    /\ Observe

\* the dict of the reader after the read of one line of get() or stats()
read_line(res, line, c, t) ==
    CASE line = "L78" -> res
      [] line = "L79" -> [res EXCEPT !.age = Some(t - c.last_update[1])]
      [] line = "L82" -> [res EXCEPT !.positions = c.positions]
      [] line = "L83" -> [res EXCEPT !.count = Len(c.positions)]
      [] line = "L84" ->
            [res EXCEPT !.last_update = IF c.last_update # None
                                        THEN Some(isoformat(c.last_update[1]))
                                        ELSE None,
                        !.cache_age_seconds = IF res.age # None /\ res.age[1] # 0
                                              THEN res.age ELSE None]
      [] line = "L86" -> [res EXCEPT !.error = c.error]
      [] line = "L92" -> [res EXCEPT !.login_count = c.login_count]
      [] line = "L93" -> [res EXCEPT !.refresh_count = c.refresh_count]
      [] line = "L94" -> [res EXCEPT !.vehicle_count = Len(c.positions)]
      [] line = "L95" ->
            [res EXCEPT !.last_update = IF c.last_update # None
                                        THEN Some(isoformat(c.last_update[1]))
                                        ELSE None]
      [] line = "L96" -> [res EXCEPT !.error = c.error]

\* the line after line; line 79 runs only if self.last_update is set
line_after(line, c) ==
    CASE line = "L78" -> IF c.last_update # None THEN "L79" ELSE "L82"
      [] line = "L79" -> "L82"
      [] line = "L82" -> "L83"
      [] line = "L83" -> "L84"
      [] line = "L84" -> "L86"
      [] line = "L86" -> "L87"
      [] line = "L92" -> "L93"
      [] line = "L93" -> "L94"
      [] line = "L94" -> "L95"
      [] line = "L95" -> "L96"
      [] line = "L96" -> "L97"

R_Read(r) ==
    /\ rpc[r] \in ReadingLines
    /\ rpc[r] = "L79" => cache.last_update # None
    /\ rres' = [rres EXCEPT ![r] = read_line(rres[r], rpc[r], cache, now)]
    /\ rpc' = [rpc EXCEPT ![r] = line_after(rpc[r], cache)]
    /\ UNCHANGED <<cache, now, supVars, clientVars, otherVars, lock, wpc, warg, wtmp>>
    /\ Observe

\* the dict is returned and the with block ends
R_Return(r) ==
    /\ rpc[r] \in {"L87", "L97"}
    /\ lock' = "free"
    /\ rpc' = [rpc EXCEPT ![r] = "idle"]
    /\ rres' = [rres EXCEPT ![r] = BlankResult]
    /\ UNCHANGED <<cache, now, supVars, clientVars, otherVars, wpc, warg, wtmp>>
    /\ Observe

NextLock ==
    \/ Tick
    \/ W_Call
    \/ W_Acquire
    \/ W_Write
    \/ W_Release
    \/ W_LoginLoad
    \/ W_LoginStore
    \/ \E r \in Readers : R_Call(r)
    \/ \E r \in Readers : R_Acquire(r)
    \/ \E r \in Readers : R_Read(r)
    \/ \E r \in Readers : R_Return(r)

SpecLock == Init /\ [][NextLock]_vars

\* C3: whatever the interleaving of the writer with the readers, the dict a
\* get() returns has count = len(positions), and its positions, count,
\* last_update and error are those of one cache state that existed, outside
\* any update in progress, during the call; likewise the counters,
\* vehicle_count, last_update and error of the dict a stats() returns.
C3_PointInTimeViews ==
    \A r \in Readers :
        /\ rpc[r] = "L87" =>
              /\ rres[r].count = Len(rres[r].positions)
              /\ \E c \in rcand[r] :
                    /\ rres[r].positions = c.positions
                    /\ rres[r].count = Len(c.positions)
                    /\ rres[r].last_update = get(c, now).last_update
                    /\ rres[r].error = c.error
        /\ rpc[r] = "L97" =>
              \E c \in rcand[r] :
                  /\ rres[r].login_count = c.login_count
                  /\ rres[r].refresh_count = c.refresh_count
                  /\ rres[r].vehicle_count = Len(c.positions)
                  /\ rres[r].last_update = stats(c).last_update
                  /\ rres[r].error = c.error

\* C3 witness: a get() returns a snapshot and an error while the writer, in
\* a call of update, waits for the lock the reader holds.
C3_Witness ==
    \E r \in Readers :
        /\ rpc[r] = "L87"
        /\ rres[r].count > 0
        /\ rres[r].error # None
        /\ wpc = "L64"


(***************************************************************************)
(* SpecCache: DataCache under any sequence of the supervisor's calls       *)
(* (update with the positions it can pass, set_error, login_count += 1),   *)
(* each one step, and a client that calls get() twice.                     *)
(***************************************************************************)
\* history: op was called between the client's two calls of get()
Noted(op) == IF g1 # None /\ g2 = None THEN between \cup {op} ELSE between

CacheUpdate ==
    /\ cache.refresh_count < MaxRefresh
    /\ \E p \in WriterPositions : cache' = update(cache, p, now)
    /\ between' = Noted("update")
    /\ UNCHANGED <<now, supVars, lockVars, otherVars, g1, g2>>

CacheSetError ==
    /\ \E msg \in ExcMsgs : cache' = set_error(cache, msg)
    /\ between' = Noted("set_error")
    /\ UNCHANGED <<now, supVars, lockVars, otherVars, g1, g2>>

CacheLoginIncrement ==
    /\ cache.login_count < MaxLogin
    /\ cache' = login_increment(cache)
    /\ between' = Noted("login")
    /\ UNCHANGED <<now, supVars, lockVars, otherVars, g1, g2>>

ClientFirstGet ==
    /\ g1 = None
    /\ g1' = Some(get(cache, now))
    /\ UNCHANGED <<cache, now, supVars, lockVars, otherVars, g2, between>>

ClientSecondGet ==
    /\ g1 # None
    /\ g2 = None
    /\ g2' = Some(get(cache, now))
    /\ UNCHANGED <<cache, now, supVars, lockVars, otherVars, g1, between>>

NextCache ==
    \/ Tick
    \/ CacheUpdate
    \/ CacheSetError
    \/ CacheLoginIncrement
    \/ ClientFirstGet
    \/ ClientSecondGet

SpecCache == Init /\ [][NextCache]_vars

\* C9 as claimed: two calls of get() with no update between them return the
\* same positions, last_update and error, whatever else the supervisor called
\* in between.  A set_error in between changes error: violated.
C9_GetTwiceSameWithoutUpdate ==
    (g2 # None /\ "update" \notin between) =>
        /\ g1[1].positions = g2[1].positions
        /\ g1[1].last_update = g2[1].last_update
        /\ g1[1].error = g2[1].error

\* C9 as amended: two calls of get() with no update between them return the
\* same positions and last_update; they return the same error too when no
\* set_error was called between them.
C9_GetTwiceSameSnapshotWithoutUpdate ==
    (g2 # None /\ "update" \notin between) =>
        /\ g1[1].positions = g2[1].positions
        /\ g1[1].last_update = g2[1].last_update
        /\ "set_error" \notin between => g1[1].error = g2[1].error

\* C9 witness: two calls of get() on a cache holding a snapshot, with a
\* set_error and a login, and no update, between them, at different times.
C9_Witness ==
    /\ g2 # None
    /\ between = {"set_error", "login"}
    /\ g1[1].positions # <<>>
    /\ g1[1].error # g2[1].error
    /\ g1[1].cache_age_seconds # g2[1].cache_age_seconds


(***************************************************************************)
(* SpecReconcile: get_positions on the captures the two streams can hold.  *)
(***************************************************************************)
MaxObjects == 2
MaxTelemetry == 2

IdA == <<"A", "1">>

IdB == <<"B", "2">>

\* a position of the object stream: coordinates, no embedded location
PosObj == PyDict([latitude |-> PyNum(52), longitude |-> PyNum(4)])

\* a position of the telemetry stream, with its embedded address
PosTel ==
    PyDict([latitude |-> PyNum(51), longitude |-> PyNum(5),
            location |-> PyDict([address |-> PyStr(<<"T">>)])])

ObjAPos ==
    PyDict([objectId |-> PyStr(IdA), position |-> PosObj,
            locationDescription |-> PyDict([address |-> PyStr(<<"D">>)])])

ObjB ==
    PyDict([objectId |-> PyStr(IdB),
            locationDescription |-> PyDict([address |-> PyStr(<<"E">>)])])

ObjNullPlate == PyDict([objectId |-> PyStr(IdB), licensePlate |-> PyNone])

\* position and locationDescription are text, not records
ObjTextPos ==
    PyDict([objectId |-> PyStr(IdB), position |-> PyStr(<<"x">>),
            locationDescription |-> PyStr(<<"y">>)])

TelAPos == PyDict([objectId |-> PyStr(IdA), position |-> PosTel, speed |-> PyNum(7)])

TelANull == PyDict([objectId |-> PyStr(IdA), position |-> PyNone])

TelB ==
    PyDict([objectId |-> PyStr(IdB), speed |-> PyNum(0), standStill |-> PyBool(TRUE)])

ObjectRecords == {ObjA, ObjAPos, ObjB, ObjNoId, ObjNullPlate, ObjTextPos}

TelemetryRecords == {TelA, TelAPos, TelANull, TelB}

\* the lists of at most n elements of S
ListsOf(S, n) == UNION {[1..k -> S] : k \in 0..n}

\* what intercepted_data can hold: None or the list of a response
Captures ==
    [objects : {PyNone} \cup {PyList(l) : l \in ListsOf(ObjectRecords, MaxObjects)},
     telemetry : {PyNone} \cup {PyList(l) : l \in ListsOf(TelemetryRecords, MaxTelemetry)}]

InitReconcile ==
    /\ cache = DataCache_init
    /\ InitRest
    /\ captured \in Captures
    /\ reconciled = None
    /\ IdleHttp

\* positions = await scraper.get_positions() on the capture
Reconcile ==
    /\ reconciled = None
    /\ reconciled' = Some(get_positions(captured))
    /\ UNCHANGED <<cache, now, supVars, lockVars, clientVars, captured, httpVars, reliable>>

NextReconcile == Reconcile

SpecReconcile == InitReconcile /\ [][NextReconcile]_vars

\* the object list and the telemetry list of the capture, [] for None
ObjectList == PyOr(captured.objects, PyList(<<>>)).v

TelemetryList == PyOr(captured.telemetry, PyList(<<>>)).v

\* get_positions returned a list for a non-empty object list
ReturnedRecords ==
    /\ reconciled # None
    /\ ~reconciled[1].raised
    /\ ObjectList # <<>>

\* the elements of s without repetition, in the order of their first occurrence
RECURSIVE Distinct(_)
Distinct(s) ==
    IF s = <<>> THEN <<>>
    ELSE LET d == Distinct(SubSeq(s, 1, Len(s) - 1))
             x == s[Len(s)]
         IN  IF \E i \in 1..Len(d) : d[i] = x THEN d ELSE Append(d, x)

\* the telemetry record the spec matches with obj: the last one with its objectId
Matching(obj) == telem_map_get(TelemetryList, obj.v["objectId"])

\* d has a position that is a record
HasPosition(d) == "position" \in DOMAIN d.v /\ d.v["position"].t = "dict"

\* C11: for a non-empty object list, the records returned are one per
\* distinct objectId of the object list, in the order of the object list,
\* also when an objectId occurs more than once
C11_OneRecordPerDistinctObjectId ==
    ReturnedRecords =>
        [i \in 1..Len(reconciled[1].value) |-> reconciled[1].value[i].object_id]
            = Distinct([i \in 1..Len(ObjectList) |-> ObjectList[i].v["objectId"]])

\* C12: reconciliation never raises, whatever fields are missing or malformed
C12_ReconciliationNeverRaises ==
    reconciled # None => ~reconciled[1].raised

\* the position the claim C13 names for obj: the telemetry's when the
\* telemetry record has one, else the object's own, else none
ClaimedPosition(obj) ==
    IF HasPosition(Matching(obj)) THEN Matching(obj).v["position"]
    ELSE IF HasPosition(obj) THEN obj.v["position"]
    ELSE EmptyDict

\* C13: latitude and longitude come from the telemetry's position when it
\* has one, otherwise from the object's own position, otherwise they are
\* null; a telemetry position that is absent or null does not hide the
\* object's own
C13_TelemetryPositionPrecedence ==
    ReturnedRecords =>
        \A i \in 1..Len(reconciled[1].value) :
            LET p == ClaimedPosition(ObjectList[i])
            IN  /\ reconciled[1].value[i].latitude = Get(p, "latitude", PyNone)
                /\ reconciled[1].value[i].longitude = Get(p, "longitude", PyNone)

\* the address embedded in the object's own position, None if there is none
EmbeddedAddress(obj) ==
    IF HasPosition(obj) /\ "location" \in DOMAIN obj.v["position"].v
    THEN Get(obj.v["position"].v["location"], "address", PyNone)
    ELSE PyNone

\* the address of the object's locationDescription, "" if there is none
DescriptionAddress(obj) ==
    Get(Get(obj, "locationDescription", EmptyDict), "address", EmptyStr)

\* C14: for an object whose telemetry has no structured position (or that
\* has no telemetry), the address is the object's own locationDescription
\* address whenever no address embedded in a position is available
C14_AddressFallsBackToDescription ==
    ReturnedRecords =>
        \A i \in 1..Len(reconciled[1].value) :
            LET obj == ObjectList[i]
            IN  (~HasPosition(Matching(obj)) /\ EmbeddedAddress(obj) = PyNone)
                    => reconciled[1].value[i].address = DescriptionAddress(obj)

(***************************************************************************)
(* APIHandler.check_auth and APIHandler.do_GET.  A request is the path of  *)
(* the request line, its query as the list of name=value pairs, and the    *)
(* Authorization header as scheme and token (the header is the scheme, a   *)
(* space and the token), None when the header is absent.                   *)
(***************************************************************************)
\* the one non-ASCII character of the model (U+00E9)
NonAsciiChars == {"e-acute"}

IsAscii(s) == \A i \in DOMAIN s : s[i] \notin NonAsciiChars

\* secrets.compare_digest on two str: TypeError unless both are ASCII
compare_digest(a, b) ==
    IF IsAscii(a) /\ IsAscii(b) THEN (IF a = b THEN "True" ELSE "False")
    ELSE "TypeError"

\* parse_qs(query).get(name, [None])[0]: the first value of name that is
\* not blank (parse_qs drops blank values), None if there is none
RECURSIVE first_value(_, _)
first_value(query, name) ==
    IF query = <<>> THEN None
    ELSE IF Head(query).name = name /\ Head(query).value # <<>>
         THEN Some(Head(query).value)
         ELSE first_value(Tail(query), name)

\* check_auth: "True", "False", or "TypeError" when compare_digest raises
check_auth(req, key) ==
    IF key = <<>> THEN "True"
    ELSE LET header == IF req.authorization # None
                          /\ req.authorization[1].scheme = "Bearer"
                       THEN compare_digest(req.authorization[1].token, key)
                       ELSE "False"
             k == first_value(req.query, "api_key")
         IN  IF header # "False" THEN header
             ELSE IF k = None THEN "False"
             ELSE compare_digest(k[1], key)

UpperOf ==
    [a |-> "A", b |-> "B", c |-> "C", d |-> "D", e |-> "E", f |-> "F", g |-> "G",
     h |-> "H", i |-> "I", j |-> "J", k |-> "K", l |-> "L", m |-> "M", n |-> "N",
     o |-> "O", p |-> "P", q |-> "Q", r |-> "R", s |-> "S", t |-> "T", u |-> "U",
     v |-> "V", w |-> "W", x |-> "X", y |-> "Y", z |-> "Z"]

\* str.upper()
upper(s) == [i \in DOMAIN s |-> IF s[i] \in DOMAIN UpperOf THEN UpperOf[s[i]] ELSE s[i]]

\* needle in hay
Contains(hay, needle) ==
    \E i \in 0..(Len(hay) - Len(needle)) : SubSeq(hay, i + 1, i + Len(needle)) = needle

\* a bug that takes a vehicle for stopped when either test holds
is_stopped_either(p) == Truthy(p.stand_still) \/ p.speed.v = 0

\* p["stand_still"] and p["speed"] == 0 (line 430)
is_stopped(p) == Truthy(p.stand_still) /\ p.speed.v = 0

\* not p["stand_still"] or p["speed"] > 0 (line 423)
is_moving(p) == ~Truthy(p.stand_still) \/ p.speed.v > 0

\* data = cache.get(); data["positions"] = positions; data["count"] = len(...)
with_positions(data, positions) ==
    [data EXCEPT !.positions = positions, !.count = Len(positions)]

Unauthorized ==
    [error |-> "Unauthorized. Use 'Authorization: Bearer <API_KEY>' header"]

NotFound == [error |-> "Not found"]

\* do_GET.  When check_auth raises nothing is sent: code 0 stands for the
\* connection closed without a response.
do_GET(req, c, t, key) ==
    IF req.path = "/health" /\ req.query = <<>> THEN do_GET_health(c)
    ELSE LET auth == check_auth(req, key)
             data == get(c, t)
             plate == first_value(req.query, "plate")
             number == first_value(req.query, "number")
         IN  IF auth = "TypeError" THEN [code |-> 0, body |-> [exception |-> auth]]
             ELSE IF auth = "False" THEN send_json(Unauthorized, 401)
             ELSE CASE req.path \in {"/positions", "/"} -> send_json(data, 200)
                    [] req.path = "/positions/vehicle" ->
                         send_json(
                            IF plate # None
                            THEN with_positions(data, SelectSeq(data.positions,
                                    LAMBDA p : Contains(upper(p.license_plate.v),
                                                        upper(plate[1]))))
                            ELSE IF number # None
                            THEN with_positions(data, SelectSeq(data.positions,
                                    LAMBDA p : p.number.v = number[1]))
                            ELSE with_positions(data, data.positions), 200)
                    [] req.path = "/positions/moving" ->
                         send_json(with_positions(data,
                                      SelectSeq(data.positions, is_moving)), 200)
                    [] req.path = "/positions/stopped" ->
                         send_json(with_positions(data,
                                      SelectSeq(data.positions, is_stopped)), 200)
                    [] req.path = "/stats" -> send_json(stats(c), 200)
                    [] OTHER -> send_json(NotFound, 404)

\* the value of the environment variable API_KEY, and the token main() generates
Secret == <<"s", "3">>

Generated == <<"g", "7">>

\* main(), lines 462-464: API_KEY when the server starts, for the value env
\* of the environment variable
main(env) == IF env = <<>> THEN Generated ELSE env

Bearer(token) == Some([scheme |-> "Bearer", token |-> token])

(***************************************************************************)
(* SpecFilter: the two filter routes on the snapshots the cache can hold   *)
(* whose records have a boolean stand_still and a numeric speed.           *)
(***************************************************************************)
MaxSnapshot == 3

Speeds == {-1, 0, 42}

\* a record of the snapshot with the given stand_still and speed
FilterRecord(still, speed) ==
    [position_record(ObjA, TelA) EXCEPT !.stand_still = PyBool(still),
                                        !.speed = PyNum(speed)]

Snapshots ==
    ListsOf({FilterRecord(still, speed) : still \in BOOLEAN, speed \in Speeds},
            MaxSnapshot)

\* the cache after cache.update(snapshot), the server started with API_KEY set
InitFilter ==
    /\ \E snapshot \in Snapshots : cache = update(DataCache_init, snapshot, 1)
    /\ InitRest
    /\ IdleReconcile
    /\ filtered = [moving |-> None, stopped |-> None]
    /\ API_KEY = main(Secret)
    /\ request = None
    /\ response = None

FilterRequest(path) ==
    [path |-> path, query |-> <<>>, authorization |-> Bearer(API_KEY)]

\* the handler works on the dict get() built: assigning data["positions"]
\* rebinds a key of that dict, the list of the cache is never written
GetMoving ==
    /\ filtered.moving = None
    /\ filtered' =
         [filtered EXCEPT !.moving =
            Some([resp |-> do_GET(FilterRequest("/positions/moving"), cache, now, API_KEY),
                  of |-> cache.positions])]
    /\ UNCHANGED <<cache, now, supVars, lockVars, clientVars, reconcileVars,
                   API_KEY, request, response, reliable>>

GetStopped ==
    /\ filtered.stopped = None
    /\ filtered' =
         [filtered EXCEPT !.stopped =
            Some([resp |-> do_GET(FilterRequest("/positions/stopped"), cache, now, API_KEY),
                  of |-> cache.positions])]
    /\ UNCHANGED <<cache, now, supVars, lockVars, clientVars, reconcileVars,
                   API_KEY, request, response, reliable>>

NextFilter ==
    \/ GetMoving
    \/ GetStopped

SpecFilter == InitFilter /\ [][NextFilter]_vars

\* a is b with some elements left out, the others in the order of b
RECURSIVE IsSubsequence(_, _)
IsSubsequence(a, b) ==
    IF a = <<>> THEN TRUE
    ELSE IF b = <<>> THEN FALSE
    ELSE IF Head(a) = Head(b) THEN IsSubsequence(Tail(a), Tail(b))
    ELSE IsSubsequence(a, Tail(b))

\* the number of records of s for which stand_still is false or speed > 0,
\* and for which stand_still is true and speed is 0
CountMoving(s) ==
    Cardinality({i \in 1..Len(s) : ~s[i].stand_still.v \/ s[i].speed.v > 0})

CountStopped(s) ==
    Cardinality({i \in 1..Len(s) : s[i].stand_still.v /\ s[i].speed.v = 0})

\* C15: on one snapshot the moving filter and the stopped filter select
\* disjoint sets of records, count(moving) + count(stopped) <= count of the
\* snapshot, the count of each response is the length of its positions,
\* which keep the order of the snapshot, and the cached snapshot is not
\* modified
C15_FilterLaws ==
    (filtered.moving # None /\ filtered.stopped # None) =>
        LET m == filtered.moving[1].resp.body
            s == filtered.stopped[1].resp.body
        IN  /\ filtered.moving[1].resp.code = 200
            /\ filtered.stopped[1].resp.code = 200
            /\ \A i \in 1..Len(m.positions), j \in 1..Len(s.positions) :
                  m.positions[i] # s.positions[j]
            /\ m.count + s.count <= Len(cache.positions)
            /\ m.count = Len(m.positions)
            /\ s.count = Len(s.positions)
            /\ m.count = CountMoving(cache.positions)
            /\ s.count = CountStopped(cache.positions)
            /\ IsSubsequence(m.positions, cache.positions)
            /\ IsSubsequence(s.positions, cache.positions)
            /\ filtered.moving[1].of = cache.positions
            /\ filtered.stopped[1].of = cache.positions

\* both routes answered for a snapshot with a moving record, a stopped
\* record and a record that is neither
C15_Witness ==
    /\ filtered.moving # None
    /\ filtered.stopped # None
    /\ filtered.moving[1].resp.body.count > 0
    /\ filtered.stopped[1].resp.body.count > 0
    /\ filtered.moving[1].resp.body.count + filtered.stopped[1].resp.body.count
          < Len(cache.positions)

(***************************************************************************)
(* SpecAuth: do_GET on the requests a client can send, after main() has    *)
(* set API_KEY from the environment or generated it.                       *)
(***************************************************************************)
MaxParams == 2

\* a key that is not API_KEY (also a plate to look for), and a token with a
\* character that is not ASCII
Wrong == <<"a", "b">>

NonAscii == <<"e-acute">>

Tokens == {Secret, Generated, Wrong, NonAscii}

Paths ==
    {"/health", "/", "/positions", "/positions/vehicle", "/positions/moving",
     "/positions/stopped", "/stats", "/nope"}

Requests ==
    [path : Paths,
     query : ListsOf([name : {"api_key", "plate"}, value : Tokens \cup {<<>>}],
                     MaxParams),
     authorization : {None} \cup {Some([scheme |-> s, token |-> t]) :
                                      s \in {"Bearer", "Basic"}, t \in Tokens}]

InitAuth ==
    /\ cache \in {DataCache_init,
                  update(DataCache_init, <<position_record(ObjA, TelA)>>, 1)}
    /\ InitRest
    /\ IdleReconcile
    /\ filtered = [moving |-> None, stopped |-> None]
    /\ API_KEY \in {main(env) : env \in {<<>>, Secret}}
    /\ request = None
    /\ response = None

\* the server handles a GET request (the handler keeps nothing from one
\* request to the next, so one request is followed)
Serve ==
    /\ request = None
    /\ \E req \in Requests :
          /\ request' = Some(req)
          /\ response' = Some(do_GET(req, cache, now, API_KEY))
    /\ UNCHANGED <<cache, now, supVars, lockVars, clientVars, reconcileVars,
                   filtered, API_KEY, reliable>>

NextAuth == Serve

SpecAuth == InitAuth /\ [][NextAuth]_vars

\* the request carries the exact key: as the token of a Bearer
\* Authorization header, or as the value of the api_key query parameter
CarriesKey(req) ==
    \/ req.authorization = Bearer(API_KEY)
    \/ first_value(req.query, "api_key") = Some(API_KEY)

\* the body holds the snapshot, the counters, or the health view of them
ReturnsCacheData(resp) ==
    DOMAIN resp.body \cap {"positions", "login_count", "refresh_count", "data"} # {}

\* C16: with API_KEY set, a GET to a path other than /health that does not
\* carry the exact key is answered 401 without cache data; a request that
\* carries the key is never answered 401; only /health returns cache data
\* without the key
C16_KeyRequiredExceptHealth ==
    response # None =>
        LET req == request[1]
            resp == response[1]
        IN  /\ (req.path # "/health" /\ ~CarriesKey(req))
                  => (resp.code = 401 /\ ~ReturnsCacheData(resp))
            /\ CarriesKey(req) => resp.code # 401
            /\ (ReturnsCacheData(resp) /\ ~CarriesKey(req)) => req.path = "/health"

(***************************************************************************)
(* Properties of Spec: the polling loop on an empty capture, the counters, *)
(* and the session a published snapshot comes from.                        *)
(***************************************************************************)
\* the supervisor moves from one line to another
Moves == pc' # pc

\* no cache.update and no file write in the step, the driver left as it is
NoPublication ==
    /\ cache'.positions = cache.positions
    /\ cache'.last_update = cache.last_update
    /\ cache'.refresh_count = cache.refresh_count
    /\ file' = file
    /\ scraper' = scraper
    /\ closeInvoked' = closeInvoked

\* C18: on an empty reconciliation the supervisor neither updates the cache
\* nor writes the file and logs in again on the same driver; when that login
\* succeeds it sleeps and then refreshes in the same session, the driver not
\* closed; when it fails it leaves the polling loop, close() is called, and
\* the backoff sleep is taken once before start() is called again
C18_EmptyCaptureReauthenticates ==
    [][ /\ (pc = "L285" /\ pc' = "L296") => (cache' = cache /\ NoPublication)
        /\ (pc = "L296" /\ Moves) => (pc' = "L296w" /\ NoPublication)
        /\ (pc = "L296w" /\ Moves) =>
              /\ NoPublication
              /\ ~via_continue'
              /\ \/ pc' = "L299" /\ scraper.page = "live"
                 \/ pc' = "L316" /\ cache'.error # None
        /\ (pc = "L299" /\ Moves) => (pc' = "L301" /\ NoPublication)
        /\ (pc = "L316" /\ ~via_continue /\ Moves) =>
              (closeInvoked' /\ pc' \in {"L319", "raised"})
        /\ (pc = "L319" /\ Moves) => (pc' = "L274" /\ NoPublication)
      ]_vars

\* the login after an empty capture succeeded: the supervisor is at the
\* sleep of line 299 with the driver open
C18_Witness ==
    /\ pc = "L299"
    /\ lastOp = "login"
    /\ cache.login_count > 1
    /\ scraper.browser = "open"
    /\ ~closeInvoked

\* C19: login_count grows by exactly 1 at every call of login() (lines 276,
\* 296, 303), whatever login() returns, and no other step changes it;
\* neither counter decreases; refresh_count > 0 implies login_count > 0
C19_CounterLaws ==
    [][ /\ (pc \in LoginSites /\ Moves) => cache'.login_count = cache.login_count + 1
        /\ ~(pc \in LoginSites /\ Moves) => cache'.login_count = cache.login_count
        /\ cache'.refresh_count >= cache.refresh_count
        /\ cache'.refresh_count > 0 => cache'.login_count > 0
      ]_vars

\* three attempts were counted, the last of them failed, after an update
C19_Witness ==
    /\ cache.login_count = 3
    /\ cache.refresh_count > 0
    /\ pc \in {"L278", "L316"}
    /\ lastOp = "set_error"
    /\ prev.login_count = 3

\* C20: the snapshot passed to cache.update (line 288) is reconciled from
\* streams intercepted since the last start(): never from a capture that an
\* earlier session left in intercepted_data
C20_SnapshotFromCurrentSession ==
    pc = "L292" => (~stale.objects /\ ~stale.telemetry)

(***************************************************************************)
(* SpecRecover: the supervisor of Spec, and a driver that is reliable from *)
(* some point on: start, login, reload, close and the file write succeed,  *)
(* and the object list intercepted by the time login or reload returns is  *)
(* of the current session, not empty, and reconciles.  The supervisor is a *)
(* coroutine of an event loop that runs nothing else, and every await in   *)
(* it ends (timeouts, sleeps), so its steps are weakly fair; so is the     *)
(* arrival of the object stream once the driver is reliable.               *)
(***************************************************************************)
\* the driver becomes reliable; the bounds leave room for the one login and
\* the one update that may follow
BecomeReliable ==
    /\ reliable = None
    /\ cache.login_count < MaxLogin
    /\ cache.refresh_count < MaxRefresh
    /\ reliable' = Some(cache.refresh_count)
    /\ UNCHANGED <<cache, now, supVars, lockVars, clientVars, reconcileVars, httpVars>>

\* the capture held after the step: from this session, and get_positions
\* returns a non-empty list for it
GoodCapture ==
    /\ ~stale'.objects
    /\ ~get_positions(intercepted_data').raised
    /\ get_positions(intercepted_data').value # <<>>

\* what a step of the supervisor or of the page is like with a reliable driver
ReliableStep ==
    /\ (pc = "L274" /\ Moves) => pc' = "L276"
    /\ \A site \in LoginSites :
          (pc = Waiting(site) /\ Moves) => (pc' = after_login(site, TRUE) /\ GoodCapture)
    /\ (pc = "L301w" /\ Moves) => (pc' = "L285" /\ GoodCapture)
    /\ (pc = "L292" /\ Moves) => pc' = "L299"
    /\ (pc = "L278" /\ Moves) => pc' = "L279"
    /\ (pc = "L316" /\ Moves) => pc' # "raised"
    /\ intercepted_data'.objects \in {intercepted_data.objects, PyNone, PyList(<<ObjA>>)}

\* the steps of background_scraper itself
Supervisor ==
    \/ Start
    \/ LoginCall
    \/ LoginReturn
    \/ Poll
    \/ FileWrite
    \/ Sleep
    \/ RefreshCall
    \/ RefreshReturn
    \/ CloseAfterLoginFailure
    \/ Finally

Driven(A) == A /\ (reliable # None => ReliableStep)

NextRecover ==
    \/ Driven(Next)
    \/ BecomeReliable

SpecRecover ==
    /\ Init
    /\ [][NextRecover]_vars
    /\ WF_vars(Driven(Supervisor))
    /\ WF_vars(Driven(InterceptObjects))

\* cache.update was called since the driver became reliable, and no error
\* is recorded
UpdatedSinceReliable ==
    /\ reliable # None
    /\ cache.refresh_count > reliable[1]
    /\ cache.error = None

\* C17: from any reachable state of the supervisor, once the driver is
\* reliable the cache is eventually updated with error cleared
C17_RecoversOnceDriverReliable ==
    (reliable # None) ~> UpdatedSinceReliable

(***************************************************************************)
(* Teardown: the calls of close() between one start() and the next.        *)
(***************************************************************************)
\* C21: close() is called exactly once between a start() and the next
\* start(), on every path out of the session: never a second time, and once
\* when the supervisor is back at line 274
C21_TeardownSingleShot ==
    /\ closeCalls <= 1
    /\ (pc = "L274" /\ started) => closeCalls = 1

=============================================================================
